---------------------------- MODULE Spec2Model ----------------------------
(***************************************************************************)
(* Model of the crop engine of src/components/ImageCropper.tsx, of the     *)
(* overlay compositor of src/utils/overlayUtils.ts, of the file, crop and  *)
(* apply-and-save handlers of src/App.tsx and of the database service.     *)
(*                                                                         *)
(* Arithmetic.  The crop rectangle holds percentages computed as           *)
(* (deltaPx / containerSizePx) * 100.  The model keeps them exact by       *)
(* storing x and w in units of 1/width percent and y and h in units of     *)
(* 1/height percent of the container: PctX(p) and PctY(p) are p percent in *)
(* those units, and a displacement of d pixels is exactly d * 100 units.   *)
(* The rounding of IEEE doubles is modelled where a value passes through   *)
(* Math.floor (the compositor's output size and font size), since there it *)
(* can change the integer; elsewhere values are exact.                     *)
(*                                                                         *)
(* Specifications.  Spec: the cropper under its UI bindings.  SpecApi: the *)
(* cropper's handlers over their parameter types.  SpecMulti: the cropper  *)
(* with one pointer more.  SpecSession: handlePointerMove over the         *)
(* sessions a pointer-down can open.  SpecRender: drawOverlayOnBitmap as a *)
(* function of its arguments.  SpecRepeat: drawOverlayOnBitmap called      *)
(* again and again on one canvas.  SpecApp: App's handlers; SpecAppFair:   *)
(* the same with every await settling.  SpecDb: the database service of    *)
(* src/unnamed/part_001.                                                   *)
(***************************************************************************)
EXTENDS Integers, Sequences, FiniteSets, TLC

\* ------------------------------------------------------------------ bounds

\* A pointer event's clientX ranges over 0..MaxPosX, in pixels (pointer
\* capture delivers events from outside the container too, so the range is
\* not tied to the container's width).
MaxPosX == 1
\* The number of pointers (mouse, fingers) that can act on the selection box.
NumPointers == 1
\* Gestures can grow w and h without limit (see C1); a pointer-move whose
\* result has x + w or y + h above MaxExtent percent is not explored.
MaxExtent == 150
\* The largest number of files one selection of the file input holds.
MaxFiles == 3
\* The number of object URLs App creates for the preview (one per file
\* selection, one per completed crop); no more are created after that.
MaxUrls == 3

\* --------------------------------------------------------------- constants

MIN_SIZE == 10
FULL == 100

\* containerRef.current.getBoundingClientRect(): the displayed size of the
\* image container in pixels.  One pixel is 50% of the width and 100% of the
\* height, so that few pointer positions reach every clamp of the handler.
ContainerRect == [width |-> 2, height |-> 1]

\* A pointer event's clientY ranges over the container's height.
MaxPosY == ContainerRect.height

PctX(p) == p * ContainerRect.width
PctY(p) == p * ContainerRect.height

Max(a, b) == IF a >= b THEN a ELSE b
Min(a, b) == IF a <= b THEN a ELSE b

PosX == 0 .. MaxPosX
PosY == 0 .. MaxPosY
Positions == [x : PosX, y : PosY]
Pointers == 1 .. NumPointers

\* The literals the pointer-down bindings pass, and the parameter type of
\* handlePointerDown (typeof action), which admits null as well.
UIActions == {"move", "nw", "ne", "sw", "se"}
NoAction == "null"
ActionType == UIActions \cup {NoAction}

\* String.prototype.includes on the action literal, for a one-letter needle.
Includes(act, ch) ==
    CASE act = "move" -> ch \in {"m", "o", "v", "e"}
      [] act = "nw"   -> ch \in {"n", "w"}
      [] act = "ne"   -> ch \in {"n", "e"}
      [] act = "sw"   -> ch \in {"s", "w"}
      [] act = "se"   -> ch \in {"s", "e"}
      [] OTHER        -> FALSE

VARIABLES
    crop,        \* useState crop: {x, y, w, h}
    isDragging,  \* useState isDragging
    dragStart,   \* useState dragStart: {x, y} in client pixels
    startCrop,   \* useState startCrop
    action,      \* useState action
    captured,    \* the pointers holding pointer capture on the box or a handle
    ev,          \* history: the kind of the last pointer event delivered
    evPos,       \* history: the clientX, clientY a handler last read
    owner,       \* history: the pointer whose pointer-down opened the open session, while it is down (else 0)
    foreign,     \* history: the last pointer event came from a pointer other than owner
    mounted,     \* whether the ImageCropper is rendered (App unmounts it in onCrop)
    performed,   \* history: what the performCrop that closed the cropper read and computed
    detour,      \* history, kept for single sessions: the last pointer-move changed a rectangle that an earlier pointer-move had set
    selectedFiles,  \* App useState selectedFiles: the files, named 1..n by position
    isProcessing,   \* App useState isProcessing
    pc,             \* where the running handleApplyAndSave is suspended ("idle": not running)
    runFiles,       \* the selectedFiles the running handleApplyAndSave closed over
    idx,            \* batch loop: the position in runFiles of the file in hand
    savedCount,     \* batch loop: let savedCount
    attempts,       \* history: processImageFromFile calls per file in the last run
    savedFiles,     \* history: the files whose saveReading resolved in the last run
    urlLive,        \* the files whose transient object URL is created and not revoked
    drawn,          \* whether drawOverlayOnBitmap drew on the canvas of the item in hand
    downloaded,     \* history: whether the last run triggered the download
    alertMsg,       \* history: the alert the last run raised
    failure,        \* history: which step of the last run failed ("none": no step)
    previewUrl,     \* App useState previewUrl: an object URL 1, 2, ... (0: null)
    originalFileUrl, \* App useState originalFileUrl (0: null)
    isCropping,     \* App useState isCropping
    urlCount,       \* the number of object URLs created for the preview so far
    liveUrls,       \* the preview object URLs created and not revoked
    shown,          \* the URL whose picture the preview img holds (0: none yet, Broken: the load failed)
    cropperImg,     \* the img of the mounted ImageCropper: "none" (no cropper), "loading", "loaded", "broken"
    lastCrop,       \* history: the URL of the last completed crop since the last file selection (0: none)
    canvasImg,      \* the hidden canvas: Blank (untouched), 0 (zero size), or the URL whose picture was drawn on it
    image,          \* drawOverlayOnBitmap's image: its naturalWidth and naturalHeight
    readings,       \* drawOverlayOnBitmap's readings: t1..t4 and pt, strings as sequences of characters
    fontScale,      \* drawOverlayOnBitmap's fontScale, in tenths
    overlay,        \* what the last drawOverlayOnBitmap set and drew on its canvas
    canvas,         \* the canvas element drawOverlayOnBitmap is called on: its size and its context's state
    earlier,        \* history: the arguments and the drawing of one earlier drawOverlayOnBitmap on that canvas
    store,          \* the object store 'readings' of ExperimentOverlayDB: its records
    keyGen,         \* the object store's key generator: the next key it gives
    clock,          \* the last value Date.now() returned
    dbCall          \* history: the last call of the database service, its arguments and its result

cropVars == <<crop, isDragging, dragStart, startCrop, action, captured, ev, evPos,
              owner, foreign, mounted, performed, detour>>
previewVars == <<previewUrl, originalFileUrl, isCropping, urlCount, liveUrls, shown,
                 cropperImg, lastCrop>>
appVars == <<selectedFiles, isProcessing, pc, runFiles, idx, savedCount, attempts,
             savedFiles, urlLive, drawn, downloaded, alertMsg, failure, previewVars,
             canvasImg>>
renderVars == <<image, readings, fontScale, overlay, canvas, earlier>>
dbVars == <<store, keyGen, clock, dbCall>>
vars == <<crop, isDragging, dragStart, startCrop, action, captured, ev, evPos,
          owner, foreign, mounted, performed, detour,
          selectedFiles, isProcessing, pc, runFiles, idx, savedCount, attempts,
          savedFiles, urlLive, drawn, downloaded, alertMsg, failure,
          previewUrl, originalFileUrl, isCropping, urlCount, liveUrls, shown,
          cropperImg, lastCrop, canvasImg,
          image, readings, fontScale, overlay, canvas, earlier,
          store, keyGen, clock, dbCall>>

\* ------------------------------------------------------------- crop engine

FullFrame == [x |-> 0, y |-> 0, w |-> PctX(FULL), h |-> PctY(FULL)]

\* deltaX, deltaY of handlePointerMove, in the units of x/w and of y/h.
DeltaX(pos, anchor) == (pos.x - anchor.x) * 100
DeltaY(pos, anchor) == (pos.y - anchor.y) * 100

\* MoveCrop with x and y clamped to the frame but not to the room the
\* rectangle's own size leaves (100 instead of 100 - size).
MoveCrop_ClampToFrame(sc, dX, dY) ==
    [sc EXCEPT !.x = Max(0, Min(PctX(FULL), sc.x + dX)),
               !.y = Max(0, Min(PctY(FULL), sc.y + dY))]

\* Lines 43-44: the move branch.  Translates x and y, each clamped with
\* Math.max(0, Math.min(100 - size, start + delta)).
MoveCrop(sc, dX, dY) ==
    [sc EXCEPT !.x = Max(0, Min(PctX(FULL) - sc.w, sc.x + dX)),
               !.y = Max(0, Min(PctY(FULL) - sc.h, sc.y + dY))]

\* ResizeE without the MIN_SIZE floor.
ResizeE_NoFloor(r, sc, dX) ==
    [r EXCEPT !.w = Min(PctX(FULL) - sc.x, sc.w + dX)]

\* Line 47: the east edge.  r is newCrop so far, sc is startCrop.
ResizeE(r, sc, dX) ==
    [r EXCEPT !.w = Max(PctX(MIN_SIZE), Min(PctX(FULL) - sc.x, sc.w + dX))]

\* Line 48: the south edge.
ResizeS(r, sc, dY) ==
    [r EXCEPT !.h = Max(PctY(MIN_SIZE), Min(PctY(FULL) - sc.y, sc.h + dY))]

\* ResizeW without the cap of the delta at startCrop.w - 10.
ResizeW_NoCap(r, sc, dX) ==
    [r EXCEPT !.x = Max(0, sc.x + dX),
              !.w = sc.w - dX]

\* ResizeW with the delta capped from below instead of from above
\* (Math.max for Math.min).
ResizeW_MaxDelta(r, sc, dX) ==
    LET maxDelta == sc.w - PctX(MIN_SIZE)
        validDelta == Max(maxDelta, dX)
    IN  [r EXCEPT !.x = Max(0, sc.x + validDelta),
                  !.w = sc.w - validDelta]

\* Lines 49-54: the west edge.
ResizeW(r, sc, dX) ==
    LET maxDelta == sc.w - PctX(MIN_SIZE)
        validDelta == Min(maxDelta, dX)
    IN  [r EXCEPT !.x = Max(0, sc.x + validDelta),
                  !.w = sc.w - validDelta]

\* Lines 55-60: the north edge.
ResizeN(r, sc, dY) ==
    LET maxDelta == sc.h - PctY(MIN_SIZE)
        validDelta == Min(maxDelta, dY)
    IN  [r EXCEPT !.y = Max(0, sc.y + validDelta),
                  !.h = sc.h - validDelta]

\* The rectangle handlePointerMove passes to setCrop (lines 40-62).
NewCrop(sc, act, dX, dY) ==
    IF act = "move"
    THEN MoveCrop(sc, dX, dY)
    ELSE
      LET r1 == IF Includes(act, "e") THEN ResizeE(sc, sc, dX) ELSE sc
          r2 == IF Includes(act, "s") THEN ResizeS(r1, sc, dY) ELSE r1
          r3 == IF Includes(act, "w") THEN ResizeW(r2, sc, dX) ELSE r2
          r4 == IF Includes(act, "n") THEN ResizeN(r3, sc, dY) ELSE r3
      IN r4

\* handlePointerMove without its early return.
MoveIgnored_Never == FALSE

\* The early return of handlePointerMove.  containerRef.current is the div
\* rendered with the component, never null while a handler can run.
MoveIgnored == (~isDragging) \/ action = NoAction

InExplored(r) ==
    /\ r.x + r.w <= PctX(MaxExtent)
    /\ r.y + r.h <= PctY(MaxExtent)

\* img.naturalWidth, img.naturalHeight of the image the cropper shows.
NaturalSizes == [w : {1, 3, 4000}, h : {1, 3000}]

\* One pixel in the units of pixelX and pixelW, and of pixelY and pixelH.
PixelUnitX == FULL * ContainerRect.width
PixelUnitY == FULL * ContainerRect.height

\* rectToPixels with the natural dimensions swapped.
RectToPixels_Swapped(r, naturalW, naturalH) ==
    [x |-> r.x * naturalH, y |-> r.y * naturalW,
     w |-> r.w * naturalH, h |-> r.h * naturalW]

\* Lines 80-84 of performCrop: pixelX = (crop.x / 100) * naturalW and so on.
\* With crop.x in units of 1/width percent the product crop.x * naturalW is
\* pixelX in units of 1/PixelUnitX pixel (likewise y and h with PixelUnitY).
RectToPixels(r, naturalW, naturalH) ==
    [x |-> r.x * naturalW, y |-> r.y * naturalH,
     w |-> r.w * naturalW, h |-> r.h * naturalH]

\* canvas.width = pixelW, canvas.height = pixelH: the assignment truncates
\* to an integer number of pixels.
CanvasSize(px) == [width |-> px.w \div PixelUnitX, height |-> px.h \div PixelUnitY]

NoPerformed ==
    [done |-> FALSE, rect |-> [x |-> 0, y |-> 0, w |-> 0, h |-> 0],
     natural |-> [w |-> 0, h |-> 0],
     pixels |-> [x |-> 0, y |-> 0, w |-> 0, h |-> 0]]

InitCrop ==
    /\ crop = FullFrame
    /\ isDragging = FALSE
    /\ dragStart = [x |-> 0, y |-> 0]
    /\ startCrop = [x |-> 0, y |-> 0, w |-> 0, h |-> 0]
    /\ action = NoAction
    /\ captured = {}
    /\ ev = "none"
    /\ evPos = [x |-> 0, y |-> 0]
    /\ owner = 0
    /\ foreign = FALSE
    /\ mounted = TRUE
    /\ performed = NoPerformed
    /\ detour = FALSE

\* Values of shown and canvasImg that are no URL.
Broken == -1
Blank == -2

FileIds == 1 .. MaxFiles
NoAttempts == [f \in FileIds |-> 0]

InitApp ==
    /\ selectedFiles = << >>
    /\ isProcessing = FALSE
    /\ pc = "idle"
    /\ runFiles = << >>
    /\ idx = 0
    /\ savedCount = 0
    /\ attempts = NoAttempts
    /\ savedFiles = {}
    /\ urlLive = {}
    /\ drawn = FALSE
    /\ downloaded = FALSE
    /\ alertMsg = "none"
    /\ failure = "none"
    /\ previewUrl = 0
    /\ originalFileUrl = 0
    /\ isCropping = FALSE
    /\ urlCount = 0
    /\ liveUrls = {}
    /\ shown = 0
    /\ cropperImg = "none"
    /\ lastCrop = 0
    /\ canvasImg = Blank

\* A canvas element as created (the hidden canvas of App, the canvas
\* processImageFromFile creates): the default size, and the context's font,
\* fillStyle and textBaseline at their defaults ("10px sans-serif" is font 10).
FreshCanvas ==
    [width |-> 300, height |-> 150, font |-> 10, bold |-> FALSE,
     fillStyle |-> "#000000", textBaseline |-> "alphabetic"]

NoEarlier == [set |-> FALSE]

\* App's fontScale and readings before any input (lines 12-16), and a canvas
\* nothing was drawn on.
InitOverlay ==
    /\ image = [width |-> 1, height |-> 1]
    /\ readings = [t1 |-> << >>, t2 |-> << >>, t3 |-> << >>, t4 |-> << >>, pt |-> << >>]
    /\ fontScale = 10
    /\ overlay = [drawn |-> FALSE]
    /\ canvas = FreshCanvas
    /\ earlier = NoEarlier

\* The database as onupgradeneeded creates it: an empty store whose key
\* generator starts at 1.
InitDb ==
    /\ store = {}
    /\ keyGen = 1
    /\ clock = 0
    /\ dbCall = [op |-> "none"]

Init == InitCrop /\ InitApp /\ InitOverlay /\ InitDb

\* handlePointerDown(e, act) for pointer p at client position pos.
HandlePointerDown(p, pos, act) ==
    /\ UNCHANGED <<appVars, renderVars, dbVars>>
    /\ mounted
    /\ UNCHANGED <<mounted, performed, detour>>
    /\ p \notin captured
    /\ isDragging' = TRUE
    /\ dragStart' = pos
    /\ startCrop' = crop
    /\ action' = act
    /\ captured' = captured \cup {p}
    /\ ev' = "down"
    /\ evPos' = pos
    /\ owner' = p
    /\ foreign' = (owner # 0 /\ p # owner)
    /\ UNCHANGED crop

\* handlePointerMove building on the current rectangle instead of startCrop.
HandlePointerMove_Accumulates(p, pos) ==
    /\ UNCHANGED <<appVars, renderVars, dbVars>>
    /\ mounted
    /\ UNCHANGED <<mounted, performed>>
    /\ IF MoveIgnored
       THEN UNCHANGED <<crop, evPos>>
       ELSE /\ crop' = NewCrop(crop, action,
                               DeltaX(pos, dragStart), DeltaY(pos, dragStart))
            /\ InExplored(crop')
            /\ evPos' = pos
    /\ ev' = "move"
    /\ foreign' = (owner # 0 /\ p # owner)
    /\ UNCHANGED <<isDragging, dragStart, startCrop, action, captured, owner>>

\* handlePointerMove(e) for a pointer at client position pos.  The history
\* variable detour is left to the specification that takes the step.
HandlePointerMove(p, pos) ==
    /\ UNCHANGED <<appVars, renderVars, dbVars>>
    /\ mounted
    /\ UNCHANGED <<mounted, performed>>
    /\ IF MoveIgnored
       THEN UNCHANGED <<crop, evPos>>
       ELSE /\ crop' = NewCrop(startCrop, action,
                               DeltaX(pos, dragStart), DeltaY(pos, dragStart))
            /\ InExplored(crop')
            /\ evPos' = pos
    /\ ev' = "move"
    /\ foreign' = (owner # 0 /\ p # owner)
    /\ UNCHANGED <<isDragging, dragStart, startCrop, action, captured, owner>>

\* handlePointerUp that also reverts the rectangle to startCrop.
HandlePointerUp_Reverts(p) ==
    /\ UNCHANGED <<appVars, renderVars, dbVars>>
    /\ mounted
    /\ UNCHANGED <<mounted, performed, detour>>
    /\ isDragging' = FALSE
    /\ action' = NoAction
    /\ crop' = startCrop
    /\ captured' = captured \ {p}
    /\ ev' = "up"
    /\ owner' = 0
    /\ foreign' = (owner # 0 /\ p # owner)
    /\ UNCHANGED <<dragStart, startCrop, evPos>>

\* handlePointerUp without setAction(null).
HandlePointerUp_KeepsAction(p) ==
    /\ UNCHANGED <<appVars, renderVars, dbVars>>
    /\ mounted
    /\ UNCHANGED <<mounted, performed, detour>>
    /\ isDragging' = FALSE
    /\ captured' = captured \ {p}
    /\ ev' = "up"
    /\ owner' = 0
    /\ foreign' = (owner # 0 /\ p # owner)
    /\ UNCHANGED <<crop, dragStart, startCrop, evPos, action>>

\* handlePointerUp(e) for pointer p.
HandlePointerUp(p) ==
    /\ UNCHANGED <<appVars, renderVars, dbVars>>
    /\ mounted
    /\ UNCHANGED <<mounted, performed, detour>>
    /\ isDragging' = FALSE
    /\ action' = NoAction
    /\ captured' = captured \ {p}
    /\ ev' = "up"
    /\ owner' = 0
    /\ foreign' = (owner # 0 /\ p # owner)
    /\ UNCHANGED <<crop, dragStart, startCrop, evPos>>

\* A pointercancel for a pointer that holds capture: the selection box binds
\* onPointerDown, onPointerMove and onPointerUp only, so no handler runs; the
\* browser releases the capture.
PointerCancel(p) ==
    /\ UNCHANGED <<appVars, renderVars, dbVars>>
    /\ mounted
    /\ UNCHANGED <<mounted, performed, detour>>
    /\ p \in captured
    /\ captured' = captured \ {p}
    /\ ev' = "cancel"
    /\ owner' = IF p = owner THEN 0 ELSE owner
    /\ foreign' = (owner # 0 /\ p # owner)
    /\ UNCHANGED <<crop, isDragging, dragStart, startCrop, action, evPos>>

\* performCrop (the Done button) on an image of natural size nat, with the
\* callback of canvas.toBlob.  The callback reads nothing but the blob, so it
\* is taken in the same step.  A canvas with a zero dimension, or with no 2D
\* context, gives no blob: onCrop is not called and nothing changes.  With a
\* blob, onCrop makes App unmount the cropper, whose state is discarded.
PerformCrop(nat, blob) ==
    /\ UNCHANGED <<appVars, renderVars, dbVars>>
    /\ mounted
    /\ LET px == RectToPixels(crop, nat.w, nat.h)
       IN  /\ blob => (CanvasSize(px).width > 0 /\ CanvasSize(px).height > 0)
           /\ IF blob
              THEN /\ performed' = [done |-> TRUE, rect |-> crop,
                                    natural |-> nat, pixels |-> px]
                   /\ mounted' = FALSE
                   /\ crop' = FullFrame
                   /\ isDragging' = FALSE
                   /\ dragStart' = [x |-> 0, y |-> 0]
                   /\ startCrop' = [x |-> 0, y |-> 0, w |-> 0, h |-> 0]
                   /\ action' = NoAction
                   /\ captured' = {}
                   /\ ev' = "done"
                   /\ evPos' = [x |-> 0, y |-> 0]
                   /\ owner' = 0
                   /\ foreign' = FALSE
                   /\ UNCHANGED detour
              ELSE UNCHANGED cropVars

Next ==
    \/ \E nat \in NaturalSizes, blob \in BOOLEAN : PerformCrop(nat, blob)
    \/ \E p \in Pointers, pos \in Positions, act \in UIActions : HandlePointerDown(p, pos, act)
    \/ \E p \in Pointers, pos \in Positions :
          HandlePointerMove(p, pos) /\ UNCHANGED detour
    \/ \E p \in Pointers : HandlePointerUp(p)
    \/ \E p \in Pointers : PointerCancel(p)

Spec == Init /\ [][Next]_vars

\* The handlers called with every value of their parameter types: act ranges
\* over typeof action, null included, which no binding of the component passes.
NextApi ==
    \/ \E nat \in NaturalSizes, blob \in BOOLEAN : PerformCrop(nat, blob)
    \/ \E p \in Pointers, pos \in Positions, act \in ActionType : HandlePointerDown(p, pos, act)
    \/ \E p \in Pointers, pos \in Positions :
          HandlePointerMove(p, pos) /\ UNCHANGED detour
    \/ \E p \in Pointers : HandlePointerUp(p)
    \/ \E p \in Pointers : PointerCancel(p)

SpecApi == Init /\ [][NextApi]_vars

\* The component with one pointer more on the selection box (a second finger,
\* or a mouse beside a pen).  The handlers read neither e.pointerId nor
\* isDragging before acting, so every pointer's events run the same code.
TouchPointers == 1 .. (NumPointers + 1)

NextMulti ==
    \/ \E nat \in NaturalSizes, blob \in BOOLEAN : PerformCrop(nat, blob)
    \/ \E p \in TouchPointers, pos \in Positions, act \in UIActions : HandlePointerDown(p, pos, act)
    \/ \E p \in TouchPointers, pos \in Positions :
          HandlePointerMove(p, pos) /\ UNCHANGED detour
    \/ \E p \in TouchPointers : HandlePointerUp(p)
    \/ \E p \in TouchPointers : PointerCancel(p)

SpecMulti == Init /\ [][NextMulti]_vars

\* ----- one gesture session
\* handlePointerMove as a function of the session and the pointer position:
\* the session (startCrop, action, anchor) is drawn from the rectangles a
\* pointer-down can find, and pointer-moves follow until the pointer-up.

\* x and w, and y and h, of the rectangles a session starts from, in percent.
SessionX == {0, 20, 50}
SessionW == {10, 50, 100, 150}
SessionY == {0, 40}
SessionH == {10, 60, 100}

\* The rectangles inside the frame, and those that gestures leave reaching
\* beyond it (a west or north resize past the frame's edge: x = 0 or y = 0).
SessionRects ==
    { r \in [x : {PctX(v) : v \in SessionX}, y : {PctY(v) : v \in SessionY},
             w : {PctX(v) : v \in SessionW}, h : {PctY(v) : v \in SessionH}] :
        /\ r.x + r.w <= PctX(FULL) \/ r.x = 0
        /\ r.y + r.h <= PctY(FULL) \/ r.y = 0 }

\* The state handlePointerDown leaves: the session is open on the rectangle
\* the pointer-down found.
InitSession ==
    /\ startCrop \in SessionRects
    /\ crop = startCrop
    /\ action \in UIActions
    /\ dragStart \in Positions
    /\ evPos = dragStart
    /\ isDragging = TRUE
    /\ captured = {1}
    /\ owner = 1
    /\ ev = "down"
    /\ foreign = FALSE
    /\ mounted = TRUE
    /\ performed = NoPerformed
    /\ detour = FALSE
    /\ InitApp
    /\ InitOverlay
    /\ InitDb

NextSession ==
    \/ \E p \in Pointers, pos \in Positions :
          /\ HandlePointerMove(p, pos)
          /\ detour' = (ev = "move" /\ ~MoveIgnored /\ crop' # crop)
    \/ \E p \in Pointers : HandlePointerUp(p)

SpecSession == InitSession /\ [][NextSession]_vars

\* ------------------------------------------------------ number arithmetic
\* Math.floor sits behind products and quotients of JavaScript numbers
\* (IEEE 754 binary64, round to nearest, ties to even), and a product that
\* rounds to just below an integer floors one lower than the exact product.
\* The values that reach Math.floor are therefore computed as the doubles the
\* code computes.  A positive double is [m, e] standing for m * 2^e with m a
\* natural number of exactly MantissaBits bits; a natural number of any size
\* is the sequence of its digits in base LimbBase, lowest first, no leading
\* zero digit (TLC's integers are 32 bits wide).

MantissaBits == 53
LimbBits == 15
LimbBase == 2 ^ LimbBits

RECURSIVE StripZeros(_)
StripZeros(a) ==
    IF Len(a) > 0 /\ a[Len(a)] = 0
    THEN StripZeros(SubSeq(a, 1, Len(a) - 1))
    ELSE a

RECURSIVE BigOfInt(_)
BigOfInt(n) ==
    IF n = 0 THEN << >> ELSE <<n % LimbBase>> \o BigOfInt(n \div LimbBase)

RECURSIVE IntOfBig(_)
IntOfBig(a) ==
    IF a = << >> THEN 0 ELSE Head(a) + LimbBase * IntOfBig(Tail(a))

\* a + b + c for a carry c.
RECURSIVE BigAddC(_, _, _)
BigAddC(a, b, c) ==
    IF a = << >> /\ b = << >>
    THEN BigOfInt(c)
    ELSE LET x == IF a = << >> THEN 0 ELSE Head(a)
             y == IF b = << >> THEN 0 ELSE Head(b)
             t == x + y + c
         IN  <<t % LimbBase>> \o
             BigAddC(IF a = << >> THEN << >> ELSE Tail(a),
                     IF b = << >> THEN << >> ELSE Tail(b),
                     t \div LimbBase)

BigAdd(a, b) == StripZeros(BigAddC(a, b, 0))

\* a * k + c for a digit k and a carry c.
RECURSIVE BigMulDigitC(_, _, _)
BigMulDigitC(a, k, c) ==
    IF a = << >>
    THEN BigOfInt(c)
    ELSE LET t == Head(a) * k + c
         IN  <<t % LimbBase>> \o BigMulDigitC(Tail(a), k, t \div LimbBase)

RECURSIVE BigMulRaw(_, _)
BigMulRaw(a, b) ==
    IF b = << >>
    THEN << >>
    ELSE BigAddC(BigMulDigitC(a, Head(b), 0), <<0>> \o BigMulRaw(a, Tail(b)), 0)

BigMul(a, b) == StripZeros(BigMulRaw(a, b))

\* Quotient (digits, possibly with leading zeros) and remainder of a by a
\* divisor d below LimbBase.
RECURSIVE BigDivModRaw(_, _)
BigDivModRaw(a, d) ==
    IF a = << >>
    THEN [q |-> << >>, r |-> 0]
    ELSE LET hi == BigDivModRaw(Tail(a), d)
             cur == hi.r * LimbBase + Head(a)
         IN  [q |-> <<cur \div d>> \o hi.q, r |-> cur % d]

BigDivMod(a, d) ==
    LET raw == BigDivModRaw(a, d) IN [q |-> StripZeros(raw.q), r |-> raw.r]

RECURSIVE BitLenInt(_)
BitLenInt(n) == IF n = 0 THEN 0 ELSE 1 + BitLenInt(n \div 2)

BitLen(a) ==
    IF a = << >> THEN 0 ELSE LimbBits * (Len(a) - 1) + BitLenInt(a[Len(a)])

ShiftLeft(a, k) ==
    IF a = << >>
    THEN << >>
    ELSE [i \in 1 .. (k \div LimbBits) |-> 0] \o
         StripZeros(BigMulDigitC(a, 2 ^ (k % LimbBits), 0))

ShiftRight(a, k) ==
    BigDivMod(SubSeq(a, (k \div LimbBits) + 1, Len(a)), 2 ^ (k % LimbBits)).q

\* Whether one of the k lowest bits of a is set.
LowBitsSet(a, k) == ShiftLeft(ShiftRight(a, k), k) # a

\* a < b.
RECURSIVE BigLess(_, _)
BigLess(a, b) ==
    IF Len(a) # Len(b)
    THEN Len(a) < Len(b)
    ELSE IF a = << >>
         THEN FALSE
         ELSE IF a[Len(a)] # b[Len(b)]
              THEN a[Len(a)] < b[Len(b)]
              ELSE BigLess(SubSeq(a, 1, Len(a) - 1), SubSeq(b, 1, Len(b) - 1))

\* The double nearest to (X + f) * 2^e, ties to even, where X is a positive
\* natural number and f is a fraction in [0, 1) that is nonzero iff inexact.
\* With inexact set, X has more than MantissaBits + 1 bits.
FRound(X, e, inexact) ==
    LET n == BitLen(X)
        s == n - MantissaBits
    IN  IF s <= 0
        THEN [m |-> ShiftLeft(X, -s), e |-> e + s]
        ELSE LET M == ShiftRight(X, s)
                 half == Head(ShiftRight(X, s - 1)) % 2 = 1
                 below == inexact \/ LowBitsSet(X, s - 1)
                 odd == Head(M) % 2 = 1
                 R == IF half /\ (below \/ odd) THEN BigAdd(M, <<1>>) ELSE M
             IN  IF BitLen(R) > MantissaBits
                 THEN [m |-> ShiftRight(R, 1), e |-> e + s + 1]
                 ELSE [m |-> R, e |-> e + s]

\* The number n, a positive integer.
FInt(n) == FRound(BigOfInt(n), 0, FALSE)

\* a / b for positive integers a and b below LimbBase, as the division of
\* two numbers holding them and as the value of a decimal literal, which is
\* the double nearest to the quotient as well.
QuotientBits == 75
FDiv(a, b) ==
    LET d == BigDivMod(ShiftLeft(BigOfInt(a), QuotientBits), b)
    IN  FRound(d.q, -QuotientBits, d.r # 0)

\* x * y.
FMul(x, y) == FRound(BigMul(x.m, y.m), x.e + y.e, FALSE)

\* x < y.
FLess(x, y) == x.e < y.e \/ (x.e = y.e /\ BigLess(x.m, y.m))

\* Math.min(x, y).
FMin(x, y) == IF FLess(y, x) THEN y ELSE x

\* Math.floor(x), for x below 2^31.
FFloor(x) ==
    IF x.e >= 0
    THEN IntOfBig(ShiftLeft(x.m, x.e))
    ELSE IntOfBig(ShiftRight(x.m, -x.e))

\* --------------------------------------------------------------- overlay
\* drawOverlayOnBitmap of src/utils/overlayUtils.ts.

MAX_DIMENSION == 2560

\* DrawSize with the width scaled by MAX_DIMENSION / width and the height by
\* MAX_DIMENSION / height, each by its own ratio.
DrawSize_OwnRatios(sw, sh) ==
    IF sw > MAX_DIMENSION \/ sh > MAX_DIMENSION
    THEN [width |-> FFloor(FMul(FInt(sw), FDiv(MAX_DIMENSION, sw))),
          height |-> FFloor(FMul(FInt(sh), FDiv(MAX_DIMENSION, sh)))]
    ELSE [width |-> sw, height |-> sh]

\* Lines 16-26: canvas.width and canvas.height for a source image of
\* naturalWidth sw and naturalHeight sh.
DrawSize(sw, sh) ==
    IF sw > MAX_DIMENSION \/ sh > MAX_DIMENSION
    THEN LET ratio == FMin(FDiv(MAX_DIMENSION, sw), FDiv(MAX_DIMENSION, sh))
         IN  [width |-> FFloor(FMul(FInt(sw), ratio)),
              height |-> FFloor(FMul(FInt(sh), ratio))]
    ELSE [width |-> sw, height |-> sh]

\* parseFloat of the slider's value, a decimal with one fractional digit:
\* t tenths.
ParseTenths(t) == FDiv(t, 10)

\* Lines 34-35: fontSize for canvas width w and fontScale of t tenths.
FontSize(w, t) ==
    LET baseSize == FMul(FInt(w), FDiv(3, 100))
    IN  Max(24, FFloor(FMul(baseSize, ParseTenths(t))))

\* Lengths that depend on lineHeight = fontSize * 1.4 are kept exact in
\* tenths of a pixel (they pass through no Math.floor).
Tenths(px) == 10 * px

\* Lines 36-38.
LineHeight(fontSize) == 14 * fontSize

\* String.prototype.trim: white space removed from both ends.
IsSpace(c) == c \in {" ", "\t", "\n"}

RECURSIVE TrimStart(_)
TrimStart(str) ==
    IF str # << >> /\ IsSpace(Head(str)) THEN TrimStart(Tail(str)) ELSE str

RECURSIVE TrimEnd(_)
TrimEnd(str) ==
    IF str # << >> /\ IsSpace(str[Len(str)])
    THEN TrimEnd(SubSeq(str, 1, Len(str) - 1))
    ELSE str

Trim(str) == TrimEnd(TrimStart(str))

\* The template literal `${label}: ${value}°C`.
Line(label, value) == label \o <<":", " ">> \o value \o <<"°", "C">>

\* Lines with the P.T line pushed whatever readings.pt holds.
Lines_PtAlways(rd) ==
    << Line(<<"T", "1">>, rd.t1), Line(<<"T", "2">>, rd.t2),
       Line(<<"T", "3">>, rd.t3), Line(<<"T", "4">>, rd.t4),
       Line(<<"P", ".", "T">>, rd.pt) >>

\* Lines with the P.T line before the T lines.
Lines_PtFirst(rd) ==
    (IF rd.pt # << >> /\ Trim(rd.pt) # << >>
     THEN << Line(<<"P", ".", "T">>, rd.pt) >>
     ELSE << >>) \o
    << Line(<<"T", "1">>, rd.t1), Line(<<"T", "2">>, rd.t2),
       Line(<<"T", "3">>, rd.t3), Line(<<"T", "4">>, rd.t4) >>

\* Lines 41-51: the text lines.
Lines(rd) ==
    << Line(<<"T", "1">>, rd.t1), Line(<<"T", "2">>, rd.t2),
       Line(<<"T", "3">>, rd.t3), Line(<<"T", "4">>, rd.t4) >> \o
    (IF rd.pt # << >> /\ Trim(rd.pt) # << >>
     THEN << Line(<<"P", ".", "T">>, rd.pt) >>
     ELSE << >>)

\* Lines 89-95: fillText(line, boxX + padding, boxY + padding + index *
\* lineHeight) for index = 0, 1, ...; y in tenths.
TextAt(lines, boxX, boxY, padding, lineHeight) ==
    [i \in 1 .. Len(lines) |->
        [line |-> lines[i], x |-> boxX + padding,
         y |-> Tenths(boxY + padding) + (i - 1) * lineHeight]]

\* What drawOverlayOnBitmap sets and draws for an image of natural size src,
\* readings rd and a fontScale of t tenths.  boxWidth comes from measureText
\* and is left out.
Render(src, rd, t) ==
    LET size == DrawSize(src.width, src.height)
        w == size.width
        fontSize == FontSize(w, t)
        lineHeight == LineHeight(fontSize)
        padding == fontSize
        margin == fontSize
        lines == Lines(rd)
        boxX == margin
        boxY == margin
    IN  [drawn |-> TRUE,
         width |-> size.width, height |-> size.height,
         fontSize |-> fontSize, lineHeight |-> lineHeight,
         padding |-> padding, margin |-> margin,
         lines |-> lines,
         boxX |-> boxX, boxY |-> boxY,
         boxHeight |-> Len(lines) * lineHeight + Tenths(padding * 2),
         text |-> TextAt(lines, boxX, boxY, padding, lineHeight)]

\* ----- drawOverlayOnBitmap as a function of its arguments

\* The longest pt value tried.
MaxPtLen == 2

\* The slider's range (min="0.5", max="2.0", step="0.1"), in tenths.
MIN_SCALE == 5
MAX_SCALE == 20
FontScales == MIN_SCALE .. MAX_SCALE

SourceWidths == {1, 800, 1200, 1500, 2139, 2560, 3000, 4278}
SourceHeights == {1, 800, 1500, 1501, 2139, 2560, 3000, 4278}
SourceSizes == [width : SourceWidths, height : SourceHeights]

RECURSIVE StringsUpTo(_, _)
StringsUpTo(chars, n) ==
    IF n = 0
    THEN {<< >>}
    ELSE LET shorter == StringsUpTo(chars, n - 1)
         IN  shorter \cup {<<c>> \o str : c \in chars, str \in shorter}

PtValues == StringsUpTo({" ", "5"}, MaxPtLen)

TValues ==
    { [t1 |-> <<"2", "1">>, t2 |-> <<"2", "2", ".", "5">>, t3 |-> <<"-", "3">>, t4 |-> <<"4">>],
      [t1 |-> << >>, t2 |-> <<"0">>, t3 |-> <<" ">>, t4 |-> <<"2", "1">>] }

ReadingsOf(tv, pt) ==
    [t1 |-> tv.t1, t2 |-> tv.t2, t3 |-> tv.t3, t4 |-> tv.t4, pt |-> pt]

InitRender ==
    /\ InitCrop
    /\ InitApp
    /\ image \in SourceSizes
    /\ readings \in {ReadingsOf(tv, pt) : tv \in TValues, pt \in PtValues}
    /\ fontScale \in FontScales
    /\ overlay = [drawn |-> FALSE]
    /\ canvas = FreshCanvas
    /\ earlier = NoEarlier
    /\ InitDb

\* drawOverlayOnBitmap(canvas, image, readings, fontScale).  Without a 2D
\* context it returns at once (line 10).
DrawOverlayOnBitmap(ctx) ==
    /\ ~overlay.drawn
    /\ IF ctx
       THEN overlay' = Render(image, readings, fontScale)
       ELSE UNCHANGED overlay
    /\ UNCHANGED <<image, readings, fontScale, canvas, earlier>>
    /\ UNCHANGED <<cropVars, appVars, dbVars>>

NextRender == \E ctx \in BOOLEAN : DrawOverlayOnBitmap(ctx)

SpecRender == InitRender /\ [][NextRender]_vars

\* ----- drawOverlayOnBitmap called again and again on one canvas
\* Single mode draws every Apply on the same hidden canvas, so what a call
\* leaves in the canvas element and its 2D context is there for the next
\* call.  Each value the code reads from the canvas or the context is read
\* here from the canvas state at that point of the function.

\* The canvas left as it is when it is already large enough.
SetCanvasSize_KeepLarger(cv, w, h) ==
    IF cv.width >= w /\ cv.height >= h
    THEN cv
    ELSE [FreshCanvas EXCEPT !.width = w, !.height = h]

\* Lines 25-26: canvas.width = drawWidth; canvas.height = drawHeight.
\* Setting a canvas dimension clears the bitmap and resets the context to its
\* default state, whatever the canvas held.
SetCanvasSize(cv, w, h) == [FreshCanvas EXCEPT !.width = w, !.height = h]

\* Lines 36-95 on the canvas c1 as lines 25-26 left it, with the fontSize of
\* line 35: the canvas as the call leaves it, and what the call drew.
LabelOn(c1, fontSize, rd) ==
    LET lineHeight == LineHeight(fontSize)
        padding == fontSize
        margin == fontSize
        lines == Lines(rd)
        c2 == [c1 EXCEPT !.font = fontSize, !.bold = TRUE]
        boxX == margin
        boxY == margin
        c3 == [c2 EXCEPT !.fillStyle = "rgba(0, 0, 0, 0.6)"]
        c4 == [c3 EXCEPT !.fillStyle = "#FFFFFF", !.textBaseline = "top"]
    IN  [canvas |-> c4,
         overlay |->
            [drawn |-> TRUE,
             width |-> c1.width, height |-> c1.height,
             fontSize |-> fontSize, lineHeight |-> lineHeight,
             padding |-> padding, margin |-> margin,
             lines |-> lines,
             measuredFont |-> c2.font, measuredBold |-> c2.bold,
             boxX |-> boxX, boxY |-> boxY,
             boxHeight |-> Len(lines) * lineHeight + Tenths(padding * 2),
             boxFill |-> c3.fillStyle,
             text |-> TextAt(lines, boxX, boxY, padding, lineHeight),
             textFont |-> c4.font, textBold |-> c4.bold,
             textFill |-> c4.fillStyle, textBaseline |-> c4.textBaseline]]

\* The arguments of the repeated calls.
RepeatSizes ==
    { [width |-> 800, height |-> 800], [width |-> 3000, height |-> 1500] }
RepeatReadings ==
    { ReadingsOf([t1 |-> <<"2", "1">>, t2 |-> <<"0">>, t3 |-> <<"-", "3">>, t4 |-> <<"4">>], pt) :
        pt \in {<< >>, <<"5">>} }
RepeatScales == {MIN_SCALE, MAX_SCALE}

\* drawOverlayOnBitmap(canvas, image, readings, fontScale) on the canvas the
\* calls before it drew on: the draw size (lines 16-23), the canvas resized
\* (lines 25-26), the fontSize from the width read back from the canvas (lines
\* 32-35), then the label.  keep: this call is the one remembered in earlier
\* (with the widest canvas a call after it has left).
Redraw(src, rd, t, ctx, keep) ==
    /\ image' = src
    /\ readings' = rd
    /\ fontScale' = t
    /\ IF ctx
       THEN \E size \in {DrawSize(src.width, src.height)} :
            \E c1 \in {SetCanvasSize(canvas, size.width, size.height)} :
            \E fontSize \in {FontSize(c1.width, t)} :
            \E d \in {LabelOn(c1, fontSize, rd)} :
                /\ canvas' = d.canvas
                /\ overlay' = d.overlay
                /\ earlier' = IF keep
                              THEN [set |-> TRUE, image |-> src, readings |-> rd,
                                    fontScale |-> t, widest |-> 0, overlay |-> d.overlay]
                              ELSE IF earlier.set
                                   THEN [earlier EXCEPT !.widest = Max(@, d.overlay.width)]
                                   ELSE earlier
       ELSE /\ overlay' = [drawn |-> FALSE]
            /\ UNCHANGED <<canvas, earlier>>
    /\ UNCHANGED <<cropVars, appVars, dbVars>>

NextRepeat ==
    \E src \in RepeatSizes, rd \in RepeatReadings, t \in RepeatScales,
       ctx \in BOOLEAN, keep \in BOOLEAN : Redraw(src, rd, t, ctx, keep)

SpecRepeat == Init /\ [][NextRepeat]_vars

\* --------------------------------------------------------- apply and save
\* handleApplyAndSave of src/App.tsx with processImageFromFile and
\* canvasToBlob of src/utils/overlayUtils.ts.  Each action runs from one
\* await to the next.  An awaited operation (image load, canvas.toBlob,
\* saveReading) resolves or rejects as the environment decides.  Of the
\* state of App, imageDimensions and refreshHistory are left out (nothing
\* reads them but the markup), and readings and fontScale are not changed:
\* what they do to the picture is in the overlay section.

Files(n) == [k \in 1 .. n |-> k]

\* The cleanup of the effect of lines 36-41, which React runs when previewUrl
\* or originalFileUrl changes: the previous values of both are revoked.
AfterCleanup(urls) == urls \ {previewUrl, originalFileUrl}

\* The preview img after its src changed: the picture it shows stays until
\* the new one has loaded; an img whose load had failed shows none.
SrcChanged(img) == IF img = Broken THEN 0 ELSE img

\* handleFileChange with n files in e.target.files.
HandleFileChange(n) ==
    /\ IF n > 0
       THEN /\ urlCount < MaxUrls
            /\ selectedFiles' = Files(n)
            /\ urlCount' = urlCount + 1
            /\ originalFileUrl' = urlCount + 1
            /\ previewUrl' = urlCount + 1
            /\ isCropping' = FALSE
            /\ cropperImg' = "none"
            /\ liveUrls' = AfterCleanup(liveUrls) \cup {urlCount + 1}
            /\ shown' = SrcChanged(shown)
            /\ lastCrop' = 0
       ELSE UNCHANGED <<selectedFiles, previewVars>>
    /\ UNCHANGED <<isProcessing, pc, runFiles, idx, savedCount, attempts,
                   savedFiles, urlLive, drawn, downloaded, alertMsg, failure,
                   canvasImg>>
    /\ UNCHANGED <<cropVars, renderVars, dbVars>>

\* Everything of App but the preview state is left as it is.
ApplyUnchanged ==
    UNCHANGED <<selectedFiles, isProcessing, pc, runFiles, idx, savedCount, attempts,
                savedFiles, urlLive, drawn, downloaded, alertMsg, failure, canvasImg>>

\* The Crop button (shown with one file selected): setIsCropping(true) mounts
\* the ImageCropper, whose img starts loading originalFileUrl; a revoked
\* object URL does not load.
ClickCrop ==
    /\ previewUrl # 0
    /\ Len(selectedFiles) = 1
    /\ ~isCropping
    /\ isCropping' = TRUE
    /\ cropperImg' = IF originalFileUrl \in liveUrls THEN "loading" ELSE "broken"
    /\ UNCHANGED <<previewUrl, originalFileUrl, urlCount, liveUrls, shown, lastCrop>>
    /\ ApplyUnchanged
    /\ UNCHANGED <<cropVars, renderVars, dbVars>>

\* The cropper's img fires load.
CropperImageLoaded ==
    /\ cropperImg = "loading"
    /\ cropperImg' = "loaded"
    /\ UNCHANGED <<previewUrl, originalFileUrl, isCropping, urlCount, liveUrls, shown,
                   lastCrop>>
    /\ ApplyUnchanged
    /\ UNCHANGED <<cropVars, renderVars, dbVars>>

\* The cropper's img fires error (the file is no picture).
CropperImageError ==
    /\ cropperImg = "loading"
    /\ cropperImg' = "broken"
    /\ UNCHANGED <<previewUrl, originalFileUrl, isCropping, urlCount, liveUrls, shown,
                   lastCrop>>
    /\ ApplyUnchanged
    /\ UNCHANGED <<cropVars, renderVars, dbVars>>

\* handleCropComplete(blob): the cropper's onCrop.  performCrop has a blob
\* only for a loaded picture (naturalWidth is 0 otherwise).
HandleCropComplete ==
    /\ cropperImg = "loaded"
    /\ urlCount < MaxUrls
    /\ urlCount' = urlCount + 1
    /\ previewUrl' = urlCount + 1
    /\ isCropping' = FALSE
    /\ cropperImg' = "none"
    /\ liveUrls' = AfterCleanup(liveUrls) \cup {urlCount + 1}
    /\ shown' = SrcChanged(shown)
    /\ lastCrop' = urlCount + 1
    /\ UNCHANGED originalFileUrl
    /\ ApplyUnchanged
    /\ UNCHANGED <<cropVars, renderVars, dbVars>>

\* handleCropCancel: the cropper's onCancel.
HandleCropCancel ==
    /\ cropperImg # "none"
    /\ isCropping' = FALSE
    /\ cropperImg' = "none"
    /\ UNCHANGED <<previewUrl, originalFileUrl, urlCount, liveUrls, shown, lastCrop>>
    /\ ApplyUnchanged
    /\ UNCHANGED <<cropVars, renderVars, dbVars>>

\* The preview img fires load for its current src (handleImageLoad, which
\* records the dimensions for the markup): from now on the img holds the
\* picture of previewUrl.
HandleImageLoad ==
    /\ previewUrl # 0
    /\ shown \notin {previewUrl, Broken}
    /\ shown' = previewUrl
    /\ UNCHANGED <<previewUrl, originalFileUrl, isCropping, urlCount, liveUrls,
                   cropperImg, lastCrop>>
    /\ ApplyUnchanged
    /\ UNCHANGED <<cropVars, renderVars, dbVars>>

\* The preview img fires error for its current src.
PreviewImageError ==
    /\ previewUrl # 0
    /\ shown \notin {previewUrl, Broken}
    /\ shown' = Broken
    /\ UNCHANGED <<previewUrl, originalFileUrl, isCropping, urlCount, liveUrls,
                   cropperImg, lastCrop>>
    /\ ApplyUnchanged
    /\ UNCHANGED <<cropVars, renderVars, dbVars>>

\* processImageFromFile up to its first await: the object URL is created and
\* the image load awaited.
StartProcess(f) ==
    /\ urlLive' = urlLive \cup {f}
    /\ attempts' = [attempts EXCEPT ![f] = @ + 1]
    /\ pc' = "bLoad"

\* A rejection inside the try block that raises no alert.
Fail_NoAlert(step) ==
    /\ UNCHANGED alertMsg
    /\ failure' = step
    /\ isProcessing' = FALSE
    /\ pc' = "idle"

\* A rejection handled by the catch alone, with no finally block.
Fail_NoFinally(step) ==
    /\ alertMsg' = "failed"
    /\ failure' = step
    /\ UNCHANGED isProcessing
    /\ pc' = "idle"

\* A rejection inside the try block: the catch alerts, the finally clears
\* isProcessing, and the handler returns.
Fail(step) ==
    /\ alertMsg' = "failed"
    /\ failure' = step
    /\ isProcessing' = FALSE
    /\ pc' = "idle"

\* The Apply button's onClick.  The button is disabled while isProcessing or
\* with no file selected, and the handler returns at once with no file.
\* Single mode draws imageRef.current, the preview img (rendered whenever a
\* file is selected, so the early return of line 114 is not taken), on the
\* hidden canvas.  Without a 2D context drawOverlayOnBitmap returns and the
\* canvas stays as it was.  With one, the canvas takes the size of the
\* picture the img holds (zero if it holds none) and the picture is drawn;
\* drawImage throws for an img whose load failed.  canvasToBlob is awaited
\* next.
HandleApplyAndSave ==
    /\ pc = "idle"
    /\ ~isProcessing
    /\ Len(selectedFiles) > 0
    /\ runFiles' = selectedFiles
    /\ savedCount' = 0
    /\ savedFiles' = {}
    /\ downloaded' = FALSE
    /\ idx' = 1
    /\ attempts' = [NoAttempts EXCEPT ![selectedFiles[1]] = 1]
    /\ IF Len(selectedFiles) > 1
       THEN /\ urlLive' = urlLive \cup {selectedFiles[1]}
            /\ isProcessing' = TRUE
            /\ alertMsg' = "none"
            /\ failure' = "none"
            /\ pc' = "bLoad"
            /\ drawn' = FALSE
            /\ UNCHANGED canvasImg
       ELSE /\ \E ctxOk \in BOOLEAN :
                 /\ drawn' = (ctxOk /\ shown # Broken)
                 /\ canvasImg' = IF ctxOk THEN SrcChanged(shown) ELSE canvasImg
                 /\ IF ctxOk /\ shown = Broken
                    THEN Fail("draw")
                    ELSE /\ isProcessing' = TRUE
                         /\ alertMsg' = "none"
                         /\ failure' = "none"
                         /\ pc' = "sEncode"
            /\ UNCHANGED urlLive
    /\ UNCHANGED <<selectedFiles, previewVars>>
    /\ UNCHANGED <<cropVars, renderVars, dbVars>>

\* processImageFromFile: img.onload.  The overlay is drawn on a fresh canvas
\* and canvasToBlob awaited.
BatchImageLoaded ==
    /\ pc = "bLoad"
    /\ \E ctxOk \in BOOLEAN : drawn' = ctxOk
    /\ pc' = "bEncode"
    /\ UNCHANGED <<selectedFiles, isProcessing, runFiles, idx, savedCount, attempts,
                   savedFiles, urlLive, downloaded, alertMsg>>
    /\ UNCHANGED <<failure, previewVars, canvasImg>>
    /\ UNCHANGED <<cropVars, renderVars, dbVars>>

\* processImageFromFile: img.onerror rejects; the URL is not revoked.
BatchImageError ==
    /\ pc = "bLoad"
    /\ Fail("load")
    /\ UNCHANGED <<selectedFiles, runFiles, idx, savedCount, attempts,
                   savedFiles, urlLive, drawn, downloaded>>
    /\ UNCHANGED <<previewVars, canvasImg>>
    /\ UNCHANGED <<cropVars, renderVars, dbVars>>

\* canvasToBlob resolves: the URL is revoked, processImageFromFile returns
\* and saveReading is awaited.
BatchEncoded ==
    /\ pc = "bEncode"
    /\ urlLive' = urlLive \ {runFiles[idx]}
    /\ pc' = "bSave"
    /\ UNCHANGED <<selectedFiles, isProcessing, runFiles, idx, savedCount, attempts,
                   savedFiles, drawn, downloaded, alertMsg>>
    /\ UNCHANGED <<failure, previewVars, canvasImg>>
    /\ UNCHANGED <<cropVars, renderVars, dbVars>>

\* canvasToBlob rejects ("Canvas conversion failed").
BatchEncodeFailed ==
    /\ pc = "bEncode"
    /\ Fail("encode")
    /\ UNCHANGED <<selectedFiles, runFiles, idx, savedCount, attempts,
                   savedFiles, urlLive, drawn, downloaded>>
    /\ UNCHANGED <<previewVars, canvasImg>>
    /\ UNCHANGED <<cropVars, renderVars, dbVars>>

\* saveReading resolves: savedCount++, then the next file, or the end of the
\* loop with the success alert and the finally block.
BatchSaved ==
    /\ pc = "bSave"
    /\ savedCount' = savedCount + 1
    /\ savedFiles' = savedFiles \cup {runFiles[idx]}
    /\ IF idx < Len(runFiles)
       THEN /\ idx' = idx + 1
            /\ StartProcess(runFiles[idx + 1])
            /\ UNCHANGED <<isProcessing, alertMsg>>
       ELSE /\ alertMsg' = "success"
            /\ isProcessing' = FALSE
            /\ pc' = "idle"
            /\ UNCHANGED <<idx, attempts, urlLive>>
    /\ UNCHANGED <<selectedFiles, runFiles, drawn, downloaded>>
    /\ UNCHANGED <<failure, previewVars, canvasImg>>
    /\ UNCHANGED <<cropVars, renderVars, dbVars>>

\* saveReading rejects.
BatchSaveFailed ==
    /\ pc = "bSave"
    /\ Fail("save")
    /\ UNCHANGED <<selectedFiles, runFiles, idx, savedCount, attempts,
                   savedFiles, urlLive, drawn, downloaded>>
    /\ UNCHANGED <<previewVars, canvasImg>>
    /\ UNCHANGED <<cropVars, renderVars, dbVars>>

\* Single mode: canvasToBlob resolves and saveReading is awaited.  A canvas
\* of zero size has no blob.
SingleEncoded ==
    /\ pc = "sEncode"
    /\ canvasImg # 0
    /\ pc' = "sSave"
    /\ UNCHANGED <<selectedFiles, isProcessing, runFiles, idx, savedCount, attempts,
                   savedFiles, urlLive, drawn, downloaded, alertMsg>>
    /\ UNCHANGED <<failure, previewVars, canvasImg>>
    /\ UNCHANGED <<cropVars, renderVars, dbVars>>

\* Single mode: canvasToBlob rejects.
SingleEncodeFailed ==
    /\ pc = "sEncode"
    /\ Fail("encode")
    /\ UNCHANGED <<selectedFiles, runFiles, idx, savedCount, attempts,
                   savedFiles, urlLive, drawn, downloaded>>
    /\ UNCHANGED <<previewVars, canvasImg>>
    /\ UNCHANGED <<cropVars, renderVars, dbVars>>

\* Single mode: saveReading resolves; the download is triggered, its URL
\* created and revoked, and the success alert raised.
SingleSaved ==
    /\ pc = "sSave"
    /\ savedFiles' = savedFiles \cup {runFiles[idx]}
    /\ downloaded' = TRUE
    /\ alertMsg' = "success"
    /\ isProcessing' = FALSE
    /\ pc' = "idle"
    /\ UNCHANGED <<selectedFiles, runFiles, idx, savedCount, attempts, urlLive, drawn>>
    /\ UNCHANGED <<failure, previewVars, canvasImg>>
    /\ UNCHANGED <<cropVars, renderVars, dbVars>>

\* Single mode: saveReading rejects.
SingleSaveFailed ==
    /\ pc = "sSave"
    /\ Fail("save")
    /\ UNCHANGED <<selectedFiles, runFiles, idx, savedCount, attempts,
                   savedFiles, urlLive, drawn, downloaded>>
    /\ UNCHANGED <<previewVars, canvasImg>>
    /\ UNCHANGED <<cropVars, renderVars, dbVars>>

NextApp ==
    \/ \E n \in 0 .. MaxFiles : HandleFileChange(n)
    \/ HandleApplyAndSave
    \/ BatchImageLoaded
    \/ BatchImageError
    \/ BatchEncoded
    \/ BatchEncodeFailed
    \/ BatchSaved
    \/ BatchSaveFailed
    \/ SingleEncoded
    \/ SingleEncodeFailed
    \/ SingleSaved
    \/ SingleSaveFailed
    \/ ClickCrop
    \/ CropperImageLoaded
    \/ CropperImageError
    \/ HandleCropComplete
    \/ HandleCropCancel
    \/ HandleImageLoad
    \/ PreviewImageError

SpecApp == Init /\ [][NextApp]_vars

\* Every awaited operation (the image load, canvas.toBlob, saveReading)
\* resolves or rejects in the end.
AwaitsSettle ==
    /\ WF_vars(BatchImageLoaded \/ BatchImageError)
    /\ WF_vars(BatchEncoded \/ BatchEncodeFailed)
    /\ WF_vars(BatchSaved \/ BatchSaveFailed)
    /\ WF_vars(SingleEncoded \/ SingleEncodeFailed)
    /\ WF_vars(SingleSaved \/ SingleSaveFailed)

SpecAppFair == SpecApp /\ AwaitsSettle

\* ---------------------------------------------------------------- database
\* The database service (src/unnamed/part_001): saveReading, getAllReadings
\* and deleteReading on the object store created with keyPath 'id' and
\* autoIncrement.  Each call's transaction holds one request, so a call takes
\* effect in one step; the request succeeds or fails as the environment
\* decides (openDB can reject, the quota can be exceeded).

\* The most records saved (the key generator is not used beyond
\* MaxKeys), and the largest value of Date.now().
MaxKeys == 3
MaxClock == 1

Keys == 1 .. MaxKeys

\* The arguments saveReading is called with: the readings, and the original
\* and processed blobs (named by numbers).
DbReadings ==
    { ReadingsOf([t1 |-> <<"2", "1">>, t2 |-> <<"0">>, t3 |-> <<"-", "3">>, t4 |-> <<"4">>], pt) :
        pt \in {<< >>, <<"5">>} }
DbBlobs == { [original |-> 1, processed |-> 2], [original |-> 2, processed |-> 1] }

\* A key generator that gives the number of records plus one.
GeneratedKey_CountPlusOne == Cardinality(store) + 1

\* Line 14, autoIncrement: the key the store's key generator gives to a
\* record added without an id.
GeneratedKey == keyGen

\* Lines 38-43: the record saveReading builds, without id.
Record(now, rd, originalBlob, processedBlob) ==
    [timestamp |-> now, readings |-> rd,
     originalImageBlob |-> originalBlob, processedImageBlob |-> processedBlob]

\* The record as stored under keyPath 'id' with the key key.
Stored(key, record) ==
    [id |-> key, timestamp |-> record.timestamp, readings |-> record.readings,
     originalImageBlob |-> record.originalImageBlob,
     processedImageBlob |-> record.processedImageBlob]

\* saveReading(readings, originalBlob, processedBlob) with Date.now()
\* returning now; Date.now() is the wall clock, which can be set back between
\* two calls.  store.add puts the record under the generated key, and
\* fails if the store has a record with that key; the promise resolves with
\* the key.  A failed request aborts its transaction, which leaves the store
\* and the key generator as they were, and the promise rejects.
SaveReading(rd, originalBlob, processedBlob, now, ok) ==
    /\ keyGen <= MaxKeys
    /\ clock' = now
    /\ LET key == GeneratedKey
           record == Record(now, rd, originalBlob, processedBlob)
           added == ok /\ \A r \in store : r.id # key
       IN  /\ IF added
              THEN /\ store' = store \cup {Stored(key, record)}
                   /\ keyGen' = keyGen + 1
              ELSE UNCHANGED <<store, keyGen>>
           /\ dbCall' = [op |-> IF added THEN "save" ELSE "saveFailed",
                         key |-> key, now |-> now, readings |-> rd,
                         originalBlob |-> originalBlob,
                         processedBlob |-> processedBlob]
    /\ UNCHANGED <<cropVars, appVars, renderVars>>

\* deleteReading(id): store.delete(id) removes the record with that key, if
\* there is one; the request can fail.
DeleteReading(id, ok) ==
    /\ store' = IF ok THEN {r \in store : r.id # id} ELSE store
    /\ dbCall' = [op |-> IF ok THEN "delete" ELSE "deleteFailed", key |-> id]
    /\ UNCHANGED <<keyGen, clock>>
    /\ UNCHANGED <<cropVars, appVars, renderVars>>

\* A comparator that puts the smaller timestamp first.
CompareFn_Ascending(a, b) == a.timestamp - b.timestamp

\* Line 71: the comparator (a, b) => b.timestamp - a.timestamp.
CompareFn(a, b) == b.timestamp - a.timestamp

\* Line 66, store.getAll(): the records of s in ascending order of their keys.
RECURSIVE GetAll(_)
GetAll(s) ==
    IF s = {} THEN << >>
    ELSE LET first == CHOOSE r \in s : \A q \in s : r.id <= q.id
         IN  <<first>> \o GetAll(s \ {first})

\* x put into the sorted sequence sorted, behind every element the comparator
\* does not order after it.
RECURSIVE InsertSorted(_, _)
InsertSorted(sorted, x) ==
    IF sorted = << >> THEN <<x>>
    ELSE IF CompareFn(Head(sorted), x) <= 0
         THEN <<Head(sorted)>> \o InsertSorted(Tail(sorted), x)
         ELSE <<x>> \o sorted

\* Line 71, results.sort(compareFn): Array.prototype.sort is stable, so the
\* result is the one an insertion of the elements in their order gives.
RECURSIVE SortFrom(_, _)
SortFrom(sorted, rest) ==
    IF rest = << >> THEN sorted
    ELSE SortFrom(InsertSorted(sorted, Head(rest)), Tail(rest))

Sort(results) == SortFrom(<< >>, results)

\* getAllReadings(): the readonly transaction reads the store as it is, and
\* the promise resolves with the sorted array; the request can fail, and the
\* promise then rejects.
GetAllReadings(ok) ==
    /\ dbCall' = IF ok THEN [op |-> "getAll", result |-> Sort(GetAll(store))]
                       ELSE [op |-> "getAllFailed"]
    /\ UNCHANGED <<store, keyGen, clock>>
    /\ UNCHANGED <<cropVars, appVars, renderVars>>

NextDb ==
    \/ \E rd \in DbReadings, b \in DbBlobs, now \in 0 .. MaxClock, ok \in BOOLEAN :
          SaveReading(rd, b.original, b.processed, now, ok)
    \/ \E ok \in BOOLEAN : GetAllReadings(ok)
    \/ \E id \in Keys, ok \in BOOLEAN : DeleteReading(id, ok)

SpecDb == Init /\ [][NextDb]_vars

\* ------------------------------------------------------------------ claims

\* clamp(v, lo, hi) as the handler computes it: Math.max(lo, Math.min(hi, v)).
Clamp(v, lo, hi) == Max(lo, Min(hi, v))

\* The state right after a pointer-move that the handler acted on.
EffectiveMove == ev = "move" /\ isDragging /\ action # NoAction

\* The displacement of the last pointer-move from the anchor point.
LastDX == DeltaX(evPos, dragStart)
LastDY == DeltaY(evPos, dragStart)

\* C1: after any sequence of gestures from the full-frame default the crop
\* rectangle satisfies 0 <= x, 0 <= y, x + w <= 100, y + h <= 100, w >= 10
\* and h >= 10.
C1_NormalizedRect ==
    /\ 0 <= crop.x
    /\ 0 <= crop.y
    /\ crop.x + crop.w <= PctX(FULL)
    /\ crop.y + crop.h <= PctY(FULL)
    /\ crop.w >= PctX(MIN_SIZE)
    /\ crop.h >= PctY(MIN_SIZE)

\* C2: a batch run of handleApplyAndSave that has ended has attempted every
\* file of the selection exactly once, whatever failed on the way.
C2_BatchAttemptsEveryFile ==
    (pc = "idle" /\ Len(runFiles) > 1) =>
        \A k \in 1 .. Len(runFiles) : attempts[runFiles[k]] = 1

\* C3: a pointer-move that arrives while the engine is Idle changes neither
\* the crop rectangle nor any session field.
C3_IdleMoveNoOp ==
    [][(~isDragging /\ ev' = "move")
         => UNCHANGED <<crop, isDragging, dragStart, startCrop, action>>]_vars

\* An Idle pointer-move was delivered after a gesture had changed the rectangle.
C3_Witness == ev = "move" /\ ~isDragging /\ crop # FullFrame

\* C4: every update of a move gesture keeps w and h of startCrop and sets
\* x = clamp(startCrop.x + deltaX, 0, 100 - startCrop.w) and
\* y = clamp(startCrop.y + deltaY, 0, 100 - startCrop.h).
C4_MoveTranslatesOnly ==
    (EffectiveMove /\ action = "move") =>
        /\ crop.w = startCrop.w
        /\ crop.h = startCrop.h
        /\ crop.x = Clamp(startCrop.x + LastDX, 0, PctX(FULL) - startCrop.w)
        /\ crop.y = Clamp(startCrop.y + LastDY, 0, PctY(FULL) - startCrop.h)

\* A move gesture translated the rectangle, and one was stopped by the clamp.
C4_Witness ==
    /\ EffectiveMove /\ action = "move"
    /\ crop.x # startCrop.x
    /\ crop.x # startCrop.x + LastDX

\* C5: after every west-edge resize (nw, sw) x >= 0 and w >= 10, and after
\* every north-edge resize (nw, ne) y >= 0 and h >= 10, whatever the
\* displacement.
C5_WestNorthFloor ==
    EffectiveMove =>
        /\ action \in {"nw", "sw"} => (crop.x >= 0 /\ crop.w >= PctX(MIN_SIZE))
        /\ action \in {"nw", "ne"} => (crop.y >= 0 /\ crop.h >= PctY(MIN_SIZE))

\* A west handle was dragged left past the frame's edge, x stopping at 0.
C5_Witness ==
    /\ EffectiveMove /\ action \in {"nw", "sw"}
    /\ startCrop.x + LastDX < 0
    /\ crop.x = 0

\* C6: a west-edge resize keeps the east edge x + w where startCrop had it,
\* and a north-edge resize keeps the south edge y + h.
C6_WestNorthLockstep ==
    EffectiveMove =>
        /\ action \in {"nw", "sw"} => crop.x + crop.w = startCrop.x + startCrop.w
        /\ action \in {"nw", "ne"} => crop.y + crop.h = startCrop.y + startCrop.h

\* C7: an east-edge resize (ne, se) leaves x unchanged and sets
\* w = clamp(startCrop.w + deltaX, 10, 100 - startCrop.x); a south-edge resize
\* (sw, se) leaves y unchanged and sets
\* h = clamp(startCrop.h + deltaY, 10, 100 - startCrop.y).
C7_EastSouthClamp ==
    EffectiveMove =>
        /\ action \in {"ne", "se"} =>
              /\ crop.x = startCrop.x
              /\ crop.w = Clamp(startCrop.w + LastDX, PctX(MIN_SIZE), PctX(FULL) - startCrop.x)
        /\ action \in {"sw", "se"} =>
              /\ crop.y = startCrop.y
              /\ crop.h = Clamp(startCrop.h + LastDY, PctY(MIN_SIZE), PctY(FULL) - startCrop.y)

\* An east-edge drag to the left was stopped by the MIN_SIZE floor.
C7_Witness ==
    /\ EffectiveMove /\ action \in {"ne", "se"}
    /\ startCrop.w + LastDX < PctX(MIN_SIZE)
    /\ crop.w = PctX(MIN_SIZE)

\* C8: once the pointer is released or cancelled, nothing holding the box any
\* more, the session is destroyed: not dragging, no action.
C8_SessionEndsOnUpOrCancel ==
    (ev \in {"up", "cancel"} /\ captured = {}) =>
        (~isDragging /\ action = NoAction)

\* C9: a pointer-up leaves the rectangle as the last pointer-move left it,
\* and as startCrop when the gesture had no pointer-move.
C9_UpKeepsRect ==
    [][ev' = "up" =>
         /\ crop' = crop
         /\ ev = "down" => crop' = startCrop']_vars

\* A gesture that changed the rectangle has ended.
C9_Witness ==
    /\ ev = "up" /\ ~isDragging
    /\ startCrop.w >= PctX(MIN_SIZE)
    /\ crop # startCrop

C11_SecondPointerNotInterleaved ==
    [][(isDragging /\ owner \in captured /\ foreign')
         => UNCHANGED <<crop, isDragging, dragStart, startCrop, action>>]_vars

\* C12.  The pixel mapping of performCrop: each field of the source region is
\* rect.field / 100 times the matching natural dimension, and the full frame
\* {0, 0, 100, 100} maps to exactly {0, 0, naturalWidth, naturalHeight}.
C12_RectToPixels ==
    performed.done =>
        LET r == performed.rect
            n == performed.natural
            px == performed.pixels
        IN  /\ px.x * PctX(FULL) = r.x * n.w * PixelUnitX
            /\ px.y * PctY(FULL) = r.y * n.h * PixelUnitY
            /\ px.w * PctX(FULL) = r.w * n.w * PixelUnitX
            /\ px.h * PctY(FULL) = r.h * n.h * PixelUnitY
            /\ r = FullFrame =>
                   px = [x |-> 0, y |-> 0,
                         w |-> n.w * PixelUnitX, h |-> n.h * PixelUnitY]

C12_Witness ==
    /\ performed.done
    /\ performed.rect = FullFrame
    /\ performed.natural.w # performed.natural.h
    /\ performed.pixels.w = performed.natural.w * PixelUnitX

\* A region other than the full frame was cropped.
C12_WitnessPartial ==
    /\ performed.done
    /\ performed.rect.w = PctX(MIN_SIZE)
    /\ performed.natural.w # performed.natural.h

\* The downscale guard applied to the image of the last drawOverlayOnBitmap.
Downscaled == image.width > MAX_DIMENSION \/ image.height > MAX_DIMENSION

\* floor(v * r) for r = min(2560 / width, 2560 / height) = 2560 / max(width,
\* height), in exact arithmetic.
ExactScaled(v) == (v * MAX_DIMENSION) \div Max(image.width, image.height)

Abs(v) == IF v < 0 THEN -v ELSE v

\* C13.  The downscale guard: sources with no dimension above 2560 keep
\* their dimensions; otherwise the output is (floor(width * r), floor(height
\* * r)) for r = min(2560 / width, 2560 / height); the output exceeds neither
\* 2560 nor the source in either dimension.
C13_DownscaleGuard ==
    overlay.drawn =>
        /\ IF Downscaled
           THEN /\ overlay.width = ExactScaled(image.width)
                /\ overlay.height = ExactScaled(image.height)
           ELSE /\ overlay.width = image.width
                /\ overlay.height = image.height
        /\ overlay.width <= MAX_DIMENSION
        /\ overlay.height <= MAX_DIMENSION
        /\ overlay.width <= image.width
        /\ overlay.height <= image.height

\* C14 as stated.  When the downscale guard applies the aspect ratio is
\* preserved exactly: outputWidth * sourceHeight = outputHeight * sourceWidth.
C14_AspectExact ==
    (overlay.drawn /\ Downscaled) =>
        overlay.width * image.height = overlay.height * image.width

\* C14, amended.  When the downscale guard applies each output dimension is
\* the scaled source dimension less at most one pixel, so that outputWidth *
\* sourceHeight and outputHeight * sourceWidth differ by at most the larger
\* source dimension.
C14_AspectWithinOnePixel ==
    (overlay.drawn /\ Downscaled) =>
        LET longer == Max(image.width, image.height)
        IN  /\ overlay.width * longer <= image.width * MAX_DIMENSION
            /\ image.width * MAX_DIMENSION <= (overlay.width + 1) * longer
            /\ overlay.height * longer <= image.height * MAX_DIMENSION
            /\ image.height * MAX_DIMENSION <= (overlay.height + 1) * longer
            /\ Abs(overlay.width * image.height - overlay.height * image.width)
                 <= longer

C14_Witness ==
    /\ overlay.drawn
    /\ Downscaled
    /\ overlay.width * image.height # overlay.height * image.width

\* A string of white space only (the empty string included).
IsBlank(str) == \A i \in 1 .. Len(str) : IsSpace(str[i])

EndsWith(str, suffix) ==
    /\ Len(suffix) <= Len(str)
    /\ SubSeq(str, Len(str) - Len(suffix) + 1, Len(str)) = suffix

StartsWith(str, prefix) ==
    /\ Len(prefix) <= Len(str)
    /\ SubSeq(str, 1, Len(prefix)) = prefix

\* C15.  A pt that is empty or white space only gives exactly 4 lines (t1 to
\* t4); any other pt gives exactly 5 lines, the pt line last.
C15_OptionalPt ==
    overlay.drawn =>
        /\ StartsWith(overlay.lines[1], <<"T", "1">>)
        /\ StartsWith(overlay.lines[2], <<"T", "2">>)
        /\ StartsWith(overlay.lines[3], <<"T", "3">>)
        /\ StartsWith(overlay.lines[4], <<"T", "4">>)
        /\ IF IsBlank(readings.pt)
           THEN Len(overlay.lines) = 4
           ELSE /\ Len(overlay.lines) = 5
                /\ EndsWith(overlay.lines[5], readings.pt \o <<"°", "C">>)

C15_Witness ==
    /\ overlay.drawn
    /\ readings.pt = <<" ", " ">>
    /\ Len(overlay.lines) = 4

\* The first four lines: "T1: v1°C" to "T4: v4°C".
TLines ==
    /\ overlay.lines[1] = <<"T", "1", ":", " ">> \o readings.t1 \o <<"°", "C">>
    /\ overlay.lines[2] = <<"T", "2", ":", " ">> \o readings.t2 \o <<"°", "C">>
    /\ overlay.lines[3] = <<"T", "3", ":", " ">> \o readings.t3 \o <<"°", "C">>
    /\ overlay.lines[4] = <<"T", "4", ":", " ">> \o readings.t4 \o <<"°", "C">>

\* C16 as stated.  The lines are "T1: v1°C" to "T4: v4°C" in this order
\* and, when present, the pt line reads "PT: <value>°C".
C16_LineFormatPT ==
    overlay.drawn =>
        /\ TLines
        /\ Len(overlay.lines) = 5 =>
             overlay.lines[5] = <<"P", "T", ":", " ">> \o readings.pt \o <<"°", "C">>

\* C16, amended.  The lines are "T1: v1°C" to "T4: v4°C" in this order
\* and, when present, the pt line reads "P.T: <value>°C".
C16_LineFormat ==
    overlay.drawn =>
        /\ TLines
        /\ Len(overlay.lines) \in {4, 5}
        /\ Len(overlay.lines) = 5 =>
             overlay.lines[5] =
                <<"P", ".", "T", ":", " ">> \o readings.pt \o <<"°", "C">>

C16_Witness ==
    /\ overlay.drawn
    /\ Len(overlay.lines) = 5
    /\ readings.t1 # readings.t4

\* The label's layout for a given fontSize: lineHeight = 1.4 * fontSize,
\* padding = margin = fontSize, box origin (margin, margin), box height =
\* n * lineHeight + 2 * padding, line i at x = boxX + padding and y = boxY +
\* padding + i * lineHeight (i from 0).
LabelLayout ==
    LET n == Len(overlay.lines)
    IN  /\ Tenths(overlay.lineHeight) = 14 * Tenths(overlay.fontSize)
        /\ overlay.padding = overlay.fontSize
        /\ overlay.margin = overlay.fontSize
        /\ overlay.boxX = overlay.margin
        /\ overlay.boxY = overlay.margin
        /\ overlay.boxHeight = n * overlay.lineHeight + Tenths(2 * overlay.padding)
        /\ Len(overlay.text) = n
        /\ \A i \in 1 .. n :
              /\ overlay.text[i].line = overlay.lines[i]
              /\ overlay.text[i].x = overlay.boxX + overlay.padding
              /\ overlay.text[i].y = Tenths(overlay.boxY + overlay.padding)
                                       + (i - 1) * overlay.lineHeight

\* max(24, floor(W * 0.03 * fontScale)) in exact arithmetic.
ExactFontSize == Max(24, (3 * overlay.width * fontScale) \div 1000)

\* C17.  Label geometry: fontSize = max(24, floor(W * 0.03 * fontScale)) for
\* the output width W, an integer >= 24, and the layout that follows from it.
C17_LabelGeometry ==
    overlay.drawn =>
        /\ overlay.fontSize = ExactFontSize
        /\ overlay.fontSize >= 24
        /\ LabelLayout

\* C18.  A compositor failure for an item (the source image does not load,
\* or the encode step yields no bytes) is signalled: the run ends with the
\* failure alert, no record is saved for the item and no download is made.
C18_CompositorFailureSignalled ==
    failure \in {"load", "draw", "encode"} =>
        /\ alertMsg = "failed"
        /\ pc = "idle"
        /\ ~isProcessing
        /\ runFiles[idx] \notin savedFiles
        /\ ~downloaded

C18_Witness ==
    /\ failure = "load"
    /\ savedCount = 1
    /\ alertMsg = "failed"

\* An encode failure in single mode.
C18_WitnessSingle ==
    /\ failure = "encode"
    /\ Len(runFiles) = 1
    /\ canvasImg > 0

\* C19.  Once processImageFromFile has returned or thrown, the object URL it
\* created is revoked.
C19_TransientUrlReleased ==
    pc \notin {"bLoad", "bEncode"} => urlLive = {}

\* The image the claim calls active: the last completed crop since the last
\* file selection if there is one, the original image otherwise.
ActiveImage == IF lastCrop # 0 THEN lastCrop ELSE originalFileUrl

\* C20.  In single-file mode an Apply that draws a picture draws the active
\* image.
C20_ApplyRendersActiveImage ==
    [][(pc = "idle" /\ pc' = "sEncode" /\ drawn' /\ canvasImg' # 0)
         => canvasImg' = ActiveImage]_vars

\* C21.  Rendering is deterministic: a drawOverlayOnBitmap call with the
\* arguments of an earlier call draws what that call drew (the same output
\* dimensions, lines, box and text positions and styles), whatever was drawn
\* on the canvas before and in between.
C21_RenderDeterministic ==
    (overlay.drawn /\ earlier.set /\ earlier.image = image
       /\ earlier.readings = readings /\ earlier.fontScale = fontScale) =>
        overlay = earlier.overlay

\* The arguments of an earlier call came again after a call that left the
\* canvas larger and the font bigger.
C21_Witness ==
    /\ overlay.drawn
    /\ earlier.set
    /\ earlier.widest > overlay.width
    /\ earlier.image = image
    /\ earlier.readings = readings
    /\ earlier.fontScale = fontScale
    /\ overlay = earlier.overlay

\* The stored records have pairwise distinct ids.
DistinctIds == \A r1, r2 \in store : r1.id = r2.id => r1 = r2

\* C22.  A saveReading that resolves has added to the store exactly one
\* record, holding the timestamp, the readings and the two blobs passed in
\* under the key the store assigned; the assigned key is the key of no record
\* stored before; and after any sequence of saveReading and deleteReading
\* calls the stored records have pairwise distinct ids.
C22_SaveReadingRecord ==
    /\ []DistinctIds
    /\ [][(dbCall' # dbCall /\ dbCall'.op \in {"save", "saveFailed"}) =>
            /\ \A r \in store : r.id # dbCall'.key
            /\ dbCall'.op = "save" =>
                  /\ store' = store \cup
                        { [id |-> dbCall'.key, timestamp |-> dbCall'.now,
                           readings |-> dbCall'.readings,
                           originalImageBlob |-> dbCall'.originalBlob,
                           processedImageBlob |-> dbCall'.processedBlob] }
                  /\ Cardinality(store') = Cardinality(store) + 1]_vars

\* A record was saved after an earlier one had been deleted, with other
\* records still stored.
C22_Witness ==
    /\ dbCall.op = "save"
    /\ dbCall.key = MaxKeys
    /\ Cardinality(store) = 2
    /\ dbCall.originalBlob # dbCall.processedBlob

\* C23.  A blob that is handed to saveReading, or downloaded, as the
\* processed image was encoded from a canvas on which the same invocation
\* drew the image and the label; without a 2D context a failure is signalled
\* instead.
C23_NoUndrawnArtifact ==
    /\ pc \in {"bSave", "sSave"} => drawn
    /\ (pc = "idle" /\ alertMsg = "success" /\ Len(runFiles) = 1) => drawn

\* C24.  A blob URL is not revoked while App's state holds it: the URLs
\* stored as previewUrl and originalFileUrl are live, so that a cropper opened
\* again after a completed crop loads the original image.
C24_HeldUrlsLive ==
    /\ previewUrl # 0 => previewUrl \in liveUrls
    /\ originalFileUrl # 0 => originalFileUrl \in liveUrls
    /\ cropperImg \in {"loading", "loaded"} => originalFileUrl \in liveUrls

\* C25.  For a source image of width >= 1 and height >= 1 both output
\* dimensions of drawOverlayOnBitmap are >= 1, also when one dimension is
\* above 2560 and the other very small.
C25_OutputAtLeastOnePixel ==
    (overlay.drawn /\ image.width >= 1 /\ image.height >= 1) =>
        (overlay.width >= 1 /\ overlay.height >= 1)

\* C26.  The source region performCrop computes from a rectangle reached
\* through gestures lies inside the image and is not empty: pixelX >= 0,
\* pixelY >= 0, pixelW > 0, pixelH > 0, pixelX + pixelW <= naturalWidth and
\* pixelY + pixelH <= naturalHeight.
C26_RegionInsideImage ==
    performed.done =>
        LET px == performed.pixels
            n == performed.natural
        IN  /\ px.x >= 0
            /\ px.y >= 0
            /\ px.w > 0
            /\ px.h > 0
            /\ px.x + px.w <= n.w * PixelUnitX
            /\ px.y + px.h <= n.h * PixelUnitY

\* C27.  Within a session the rectangle is path-independent: after any
\* sequence of pointer-moves it is the function NewCrop of startCrop, the
\* action, the anchor and the last pointer position, whatever the moves
\* before the last one had set.
C27_PathIndependent ==
    EffectiveMove => crop = NewCrop(startCrop, action, LastDX, LastDY)

\* A pointer-move changed the rectangle that an earlier pointer-move of the
\* session had set, and an update built on that rectangle would differ.
C27_Witness ==
    /\ EffectiveMove
    /\ detour
    /\ crop # startCrop
    /\ NewCrop(crop, action, LastDX, LastDY) # crop

\* The NormalizedRect invariants for a rectangle r.
Normalized(r) ==
    /\ 0 <= r.x
    /\ 0 <= r.y
    /\ r.x + r.w <= PctX(FULL)
    /\ r.y + r.h <= PctY(FULL)
    /\ r.w >= PctX(MIN_SIZE)
    /\ r.h >= PctY(MIN_SIZE)

\* C28.  A pointer-move with zero displacement from the anchor is the
\* identity: for each of the five actions and every startCrop satisfying the
\* NormalizedRect invariants the updated rectangle equals startCrop.
C28_ZeroDisplacementIdentity ==
    (EffectiveMove /\ evPos = dragStart /\ Normalized(startCrop)) =>
        crop = startCrop

\* The pointer came back to the anchor of a west handle's session after a
\* pointer-move that had changed the rectangle.
C28_Witness ==
    /\ EffectiveMove
    /\ evPos = dragStart
    /\ Normalized(startCrop)
    /\ action \in {"nw", "sw"}
    /\ startCrop.w > PctX(MIN_SIZE)
    /\ detour
    /\ crop = startCrop

\* C29.  Every run of handleApplyAndSave that sets isProcessing to true
\* sets it back to false in the end, on every path (success in batch and in
\* single mode, a failure of load, encode or save), provided every awaited
\* operation resolves or rejects.
C29_ProcessingEnds == isProcessing ~> ~isProcessing

\* A batch run ended on the rejection of its second file's saveReading.
C29_Witness ==
    /\ ~isProcessing
    /\ pc = "idle"
    /\ failure = "save"
    /\ savedCount = 1
    /\ idx = 2

\* C30.  In every state reachable through the cropper's UI handlers
\* isDragging is true exactly when action is non-null, and while Dragging
\* startCrop is the rectangle that was current at the pointer-down that opened
\* the session: a pointer-down stores the current rectangle in startCrop, and
\* nothing else changes startCrop while the engine stays Dragging.
C30_SessionFlagsAgree ==
    /\ [](isDragging <=> action # NoAction)
    /\ [][/\ ev' = "down" => (startCrop' = crop /\ crop' = crop)
          /\ (isDragging /\ isDragging' /\ ev' # "down") => startCrop' = startCrop]_vars

\* A session opened on a rectangle that an earlier gesture had set, with a
\* pointer-move that has changed the rectangle since.
C30_Witness ==
    /\ isDragging
    /\ action = "se"
    /\ ev = "move"
    /\ startCrop # FullFrame
    /\ startCrop.w >= PctX(MIN_SIZE)
    /\ crop # startCrop

\* C31: whenever getAllReadings returns, after any sequence of saveReading
\* and deleteReading calls, the array it returns holds every record stored at
\* that time, each exactly once, and no record stands before one with a
\* larger timestamp.
C31_GetAllReadingsSorted ==
    dbCall.op = "getAll" =>
        /\ { dbCall.result[i] : i \in 1 .. Len(dbCall.result) } = store
        /\ Len(dbCall.result) = Cardinality(store)
        /\ \A i, j \in 1 .. Len(dbCall.result) :
              i < j => dbCall.result[i].timestamp >= dbCall.result[j].timestamp

\* getAllReadings has returned two records after a third was deleted, and the
\* sort has put the record with the larger key and the larger timestamp
\* first.
C31_Witness ==
    /\ dbCall.op = "getAll"
    /\ Len(dbCall.result) = 2
    /\ keyGen > 3
    /\ dbCall.result[1].id > dbCall.result[2].id
    /\ dbCall.result[1].timestamp > dbCall.result[2].timestamp

=============================================================================
